---- MODULE Spec2Model ----
(***************************************************************************)
(* Stellarcade Wordle Clone contract                                       *)
(* (contracts/wordle-clone/src/lib.rs).                                    *)
(*                                                                         *)
(* The ledger entries of the contract are the variables; every contract    *)
(* entry point is a pure operator from (storage, arguments) to             *)
(* (storage, result, events), written in the order of the statements of    *)
(* the Rust function, and one action applies it.  A return with an error   *)
(* hands back the storage as the function had written it up to that        *)
(* point: no host rollback is assumed, so that the order of checks and     *)
(* writes in the code is what the properties rest on.                      *)
(***************************************************************************)
EXTENDS Integers, Sequences, FiniteSets, TLC

\* ------------------------------------------------------------------------
\* Constants of the contract
\* ------------------------------------------------------------------------

WORD_LENGTH == 5

MAX_ATTEMPTS == 6

MAX_PLAYERS_PER_PUZZLE == 1000

SCORE_ABSENT == 0

SCORE_PRESENT == 1

SCORE_CORRECT == 2

\* ------------------------------------------------------------------------
\* Bounds of the model and the inputs the calls are drawn from
\* ------------------------------------------------------------------------

\* Largest number of attempt records, over all puzzles and players, that the
\* explored runs store (a successful submit_attempt is not taken beyond it).
MaxStored == 6

PuzzleIds == {1}

Players == {"alice", "bob"}

Addresses == {"admin"} \cup Players

\* The addresses that authorise the calls of the administrator's entry
\* points: the administrator and one other.
AdminCallers == {"admin", "alice"}

\* The admin argument of init.
AdminArgs == {"admin"}

\* Bytes values of the tests: "CRANE", "STALE" and the two-byte "HI".
CRANE == <<67, 82, 65, 78, 69>>

STALE == <<83, 84, 65, 76, 69>>

HI == <<72, 73>>

Words == {CRANE, STALE, HI}

\* ------------------------------------------------------------------------
\* Host primitives
\* ------------------------------------------------------------------------

\* env.crypto().sha256: a deterministic digest of the bytes (a polynomial
\* fold stands for SHA-256; no property below assumes it is collision free).
RECURSIVE digest_fold(_, _, _)
digest_fold(b, i, h) ==
    IF i > Len(b) THEN h
    ELSE digest_fold(b, i + 1, (h * 31 + b[i]) % 65521)

sha256(b) == digest_fold(b, 1, 7)

Commitments == {sha256(CRANE), sha256(STALE)}

\* The checked addition of a counter one byte wide.
checked_add_overflows_u8(x) == x >= 255

\* u32::checked_add(1): None ("Overflow" at the call sites) at u32::MAX.
\* x > 2^32 - 2 is written so that no intermediate value leaves 32 bits.
checked_add_overflows(x) == x - 2147483647 > 2147483647

\* ------------------------------------------------------------------------
\* Storage (instance() and persistent() ledger entries) and the last call
\* ------------------------------------------------------------------------

VARIABLES
    instance,    \* DataKey::Admin / PrizePoolContract / BalanceContract -> Address
    Puzzle,      \* DataKey::Puzzle(puzzle_id) -> PuzzleData
    PlayerList,  \* DataKey::PlayerList(puzzle_id) -> Vec<Address>
    Attempts,    \* DataKey::Attempts(puzzle_id, player) -> Vec<Attempt>
    Winner,      \* DataKey::Winner(puzzle_id, player) -> bool
    last         \* the last invocation: entry point, its result, its events

vars == <<instance, Puzzle, PlayerList, Attempts, Winner, last>>

\* The storage as one value, handed to and returned by the entry points.
\* A key is present iff it is in the DOMAIN of its map.
Storage ==
    [instance |-> instance, Puzzle |-> Puzzle, PlayerList |-> PlayerList,
     Attempts |-> Attempts, Winner |-> Winner]

NoEntries == [k \in {} |-> 0]

\* storage().get(key): Some(value) as <<value>>, None as <<>>.
storage_get(map, key) == IF key \in DOMAIN map THEN <<map[key]>> ELSE <<>>

\* Option::unwrap_or / unwrap_or_else.
unwrap_or(opt, default) == IF opt = <<>> THEN default ELSE opt[1]

\* storage().set(key, val); persist_set also extends the entry's TTL, which
\* no entry point reads.
storage_set(map, key, val) ==
    IF key \in DOMAIN map
    THEN [map EXCEPT ![key] = val]
    ELSE map @@ (key :> val)

persist_set(map, key, val) == storage_set(map, key, val)

\* The Attempts key without the puzzle id.
attempts_key_player_only(puzzle_id, player) == <<0, player>>

\* DataKey::Attempts(puzzle_id, player).
attempts_key(puzzle_id, player) == <<puzzle_id, player>>

\* What an invocation hands back.
Outcome(env, result, events) ==
    [env |-> env, result |-> result, events |-> events]

\* Address::require_auth: the invocation is authorised by `auth`; for any
\* other address the host aborts the invocation (no Error of the contract).
require_auth_fails(auth, address) == auth # address

get_admin(env) == storage_get(env.instance, "Admin")

PuzzleData(commitment, status, answer, winner_count, player_count) ==
    [answer_commitment |-> commitment, status |-> status, answer |-> answer,
     winner_count |-> winner_count, player_count |-> player_count]

Attempt(guess, scores) == [guess |-> guess, scores |-> scores]

\* ------------------------------------------------------------------------
\* Scoring
\* ------------------------------------------------------------------------

\* Bytes::get(i): Some(byte) or None past the end (positions are 1-based here).
bytes_get(b, i) == IF i \in 1..Len(b) THEN <<b[i]>> ELSE <<>>

Positions == 1..WORD_LENGTH

\* Pass 1 of score_guess: the positions where guess.get(i) == answer.get(i).
exact_match(guess, answer) ==
    [i \in Positions |-> bytes_get(guess, i) = bytes_get(answer, i)]

\* Pass 2 marking PRESENT without consuming the answer position it found.
RECURSIVE score_pass2_reuse(_, _, _, _, _, _)
score_pass2_reuse(i, scores, answer_used, guess_matched, guess, answer) ==
    IF i > WORD_LENGTH THEN scores
    ELSE IF guess_matched[i]
    THEN score_pass2_reuse(i + 1, scores, answer_used, guess_matched, guess,
                           answer)
    ELSE
        LET g == unwrap_or(bytes_get(guess, i), 0)
            free == {j \in Positions :
                        /\ ~answer_used[j]
                        /\ unwrap_or(bytes_get(answer, j), 1) = g}
        IN  score_pass2_reuse(
                i + 1,
                IF free = {} THEN scores
                ELSE [scores EXCEPT ![i] = SCORE_PRESENT],
                answer_used, guess_matched, guess, answer)

\* Pass 2 of score_guess from position i on: scores and answer_used so far.
RECURSIVE score_pass2(_, _, _, _, _, _)
score_pass2(i, scores, answer_used, guess_matched, guess, answer) ==
    IF i > WORD_LENGTH THEN scores
    ELSE IF guess_matched[i]
    THEN score_pass2(i + 1, scores, answer_used, guess_matched, guess, answer)
    ELSE
        LET g == unwrap_or(bytes_get(guess, i), 0)
            free == {j \in Positions :
                        /\ ~answer_used[j]
                        /\ unwrap_or(bytes_get(answer, j), 1) = g}
        IN  IF free = {}
            THEN score_pass2(i + 1, scores, answer_used, guess_matched,
                             guess, answer)
            ELSE
                LET j == CHOOSE m \in free : \A n \in free : m <= n
                IN  score_pass2(i + 1,
                                [scores EXCEPT ![i] = SCORE_PRESENT],
                                [answer_used EXCEPT ![j] = TRUE],
                                guess_matched, guess, answer)

\* score_guess whose first pass leaves the answer positions of the exact
\* matches free for the second pass.
score_guess_exact_unconsumed(guess, answer) ==
    LET matched == exact_match(guess, answer)
        scores1 == [i \in Positions |->
                       IF matched[i] THEN SCORE_CORRECT ELSE SCORE_ABSENT]
    IN  score_pass2(1, scores1, [i \in Positions |-> FALSE], matched, guess,
                    answer)

score_guess(guess, answer) ==
    LET matched == exact_match(guess, answer)
        scores1 == [i \in Positions |->
                       IF matched[i] THEN SCORE_CORRECT ELSE SCORE_ABSENT]
    IN  score_pass2(1, scores1, matched, matched, guess, answer)

\* is_all_correct taking every score but ABSENT for CORRECT.
is_all_correct_none_absent(scores) ==
    /\ \A i \in 1..Len(scores) : scores[i] # SCORE_ABSENT
    /\ Len(scores) = WORD_LENGTH

is_all_correct(scores) ==
    /\ \A i \in 1..Len(scores) : scores[i] = SCORE_CORRECT
    /\ Len(scores) = WORD_LENGTH

\* ------------------------------------------------------------------------
\* Entry points: (storage, authorising address, arguments) -> Outcome
\* ------------------------------------------------------------------------

\* init without the look for a stored administrator.
init_unguarded(env, auth, admin, prize_pool_contract, balance_contract) ==
    IF require_auth_fails(auth, admin)
    THEN Outcome(env, "HostAuthError", <<>>)
    ELSE
        LET i1 == storage_set(env.instance, "Admin", admin)
            i2 == storage_set(i1, "PrizePoolContract", prize_pool_contract)
            i3 == storage_set(i2, "BalanceContract", balance_contract)
        IN  Outcome([env EXCEPT !.instance = i3], "Ok", <<>>)

init(env, auth, admin, prize_pool_contract, balance_contract) ==
    IF "Admin" \in DOMAIN env.instance
    THEN Outcome(env, "AlreadyInitialized", <<>>)
    ELSE IF require_auth_fails(auth, admin)
    THEN Outcome(env, "HostAuthError", <<>>)
    ELSE
        LET i1 == storage_set(env.instance, "Admin", admin)
            i2 == storage_set(i1, "PrizePoolContract", prize_pool_contract)
            i3 == storage_set(i2, "BalanceContract", balance_contract)
        IN  Outcome([env EXCEPT !.instance = i3], "Ok", <<>>)

\* create_daily_puzzle without the look for an existing puzzle.
create_daily_puzzle_overwrite(env, auth, puzzle_id, answer_commitment) ==
    LET admin == get_admin(env) IN
    IF admin = <<>> THEN Outcome(env, "NotInitialized", <<>>)
    ELSE IF require_auth_fails(auth, admin[1])
    THEN Outcome(env, "HostAuthError", <<>>)
    ELSE
        LET env1 == [env EXCEPT
                        !.Puzzle = persist_set(@, puzzle_id,
                            PuzzleData(answer_commitment, "Open", <<>>, 0,
                                       0))]
            env2 == [env1 EXCEPT
                        !.PlayerList = persist_set(@, puzzle_id, <<>>)]
        IN  Outcome(env2, "Ok",
                    << [event |-> "PuzzleCreated", puzzle_id |-> puzzle_id,
                        answer_commitment |-> answer_commitment] >>)

\* create_daily_puzzle writing the empty PlayerList before it looks for an
\* existing puzzle.
create_daily_puzzle_write_first(env, auth, puzzle_id, answer_commitment) ==
    LET admin == get_admin(env)
        env0 == [env EXCEPT !.PlayerList = persist_set(@, puzzle_id, <<>>)]
    IN
    IF admin = <<>> THEN Outcome(env, "NotInitialized", <<>>)
    ELSE IF require_auth_fails(auth, admin[1])
    THEN Outcome(env, "HostAuthError", <<>>)
    ELSE IF puzzle_id \in DOMAIN env.Puzzle
    THEN Outcome(env0, "PuzzleAlreadyExists", <<>>)
    ELSE
        Outcome([env0 EXCEPT
                    !.Puzzle = persist_set(@, puzzle_id,
                        PuzzleData(answer_commitment, "Open", <<>>, 0, 0))],
                "Ok",
                << [event |-> "PuzzleCreated", puzzle_id |-> puzzle_id,
                    answer_commitment |-> answer_commitment] >>)

create_daily_puzzle(env, auth, puzzle_id, answer_commitment) ==
    LET admin == get_admin(env) IN
    IF admin = <<>> THEN Outcome(env, "NotInitialized", <<>>)
    ELSE IF require_auth_fails(auth, admin[1])
    THEN Outcome(env, "HostAuthError", <<>>)
    ELSE IF puzzle_id \in DOMAIN env.Puzzle
    THEN Outcome(env, "PuzzleAlreadyExists", <<>>)
    ELSE
        LET puzzle == PuzzleData(answer_commitment, "Open", <<>>, 0, 0)
            env1 == [env EXCEPT
                        !.Puzzle = persist_set(@, puzzle_id, puzzle)]
            env2 == [env1 EXCEPT
                        !.PlayerList = persist_set(@, puzzle_id, <<>>)]
        IN  Outcome(env2, "Ok",
                    << [event |-> "PuzzleCreated", puzzle_id |-> puzzle_id,
                        answer_commitment |-> answer_commitment] >>)

\* Every attempt taken for the player's first.
is_first_attempt_always(attempt_number) == TRUE

\* Line 332: the player's first attempt for the puzzle.
is_first_attempt(attempt_number) == attempt_number = 0

\* The player cap never applied.
puzzle_full_never(puzzle) == FALSE

\* The player cap compared with > instead of >=.
puzzle_full_off_by_one(puzzle) ==
    puzzle.player_count > MAX_PLAYERS_PER_PUZZLE

\* Lines 333-335: the player cap.
puzzle_full(puzzle) == puzzle.player_count >= MAX_PLAYERS_PER_PUZZLE

\* The registration leaving player_count as it was.
count_player_forgotten(puzzle) == puzzle

\* Line 344: player_count after a registration (the overflow is checked
\* before it, by checked_add_overflows).
count_player(puzzle) == [puzzle EXCEPT !.player_count = @ + 1]

\* The attempt number published 0-indexed.
published_attempt_number_from_zero(attempt_number) == attempt_number

\* Line 361: the attempt number of the AttemptSubmitted event (the overflow
\* is checked before it, by checked_add_overflows).
published_attempt_number(attempt_number) == attempt_number + 1

\* Lines 331-366 of submit_attempt: registration of a new player, the push of
\* the attempt and the event, once every earlier check has passed.
submit_attempt_record(env, player, puzzle_id, attempt, puzzle, attempts) ==
    LET attempt_number == Len(attempts)
        first == is_first_attempt(attempt_number)
        full == first /\ puzzle_full(puzzle)
        players == Append(unwrap_or(storage_get(env.PlayerList, puzzle_id),
                                    <<>>), player)
        env1 == IF first
                THEN [env EXCEPT
                         !.PlayerList = persist_set(@, puzzle_id, players)]
                ELSE env
        count_overflows == first
                             /\ checked_add_overflows(puzzle.player_count)
        env2 == IF first
                THEN [env1 EXCEPT
                         !.Puzzle = persist_set(@, puzzle_id,
                                                count_player(puzzle))]
                ELSE env1
        pushed == Append(attempts, Attempt(attempt, <<>>))
        env3 == [env2 EXCEPT
                    !.Attempts = persist_set(@, attempts_key(puzzle_id,
                                                              player),
                                             pushed)]
    IN  IF full THEN Outcome(env, "PuzzleFull", <<>>)
        ELSE IF count_overflows THEN Outcome(env1, "Overflow", <<>>)
        ELSE IF checked_add_overflows(attempt_number)
        THEN Outcome(env3, "Overflow", <<>>)
        ELSE Outcome(env3, "Ok",
                     << [event |-> "AttemptSubmitted", puzzle_id |-> puzzle_id,
                         player |-> player,
                         attempt_number |->
                             published_attempt_number(attempt_number),
                         guess |-> attempt] >>)

\* submit_attempt refusing only a Finalized puzzle.
submit_status_rejected_finalized_only(puzzle) == puzzle.status = "Finalized"

\* Line 316: the puzzle accepts guesses only while Open.
submit_status_rejected(puzzle) == puzzle.status # "Open"

\* The cap compared with > instead of >=.
too_many_attempts_off_by_one(attempts) == Len(attempts) > MAX_ATTEMPTS

\* Lines 326-329: the per-player cap.
too_many_attempts(attempts) == Len(attempts) >= MAX_ATTEMPTS

\* The length check refusing only words that are too long.
invalid_word_length_longer_only(word) == Len(word) > WORD_LENGTH

\* Lines 306 and 382: the length check on a guess and on an answer.
invalid_word_length(word) == Len(word) # WORD_LENGTH

\* submit_attempt looking the puzzle up and checking its status before it
\* checks the length of the guess.
submit_attempt_lookup_first(env, auth, player, puzzle_id, attempt) ==
    IF require_auth_fails(auth, player)
    THEN Outcome(env, "HostAuthError", <<>>)
    ELSE IF puzzle_id \notin DOMAIN env.Puzzle
    THEN Outcome(env, "PuzzleNotFound", <<>>)
    ELSE
        LET puzzle == env.Puzzle[puzzle_id]
            attempts == unwrap_or(
                storage_get(env.Attempts, attempts_key(puzzle_id, player)),
                <<>>)
        IN  IF submit_status_rejected(puzzle)
            THEN Outcome(env, "PuzzleNotOpen", <<>>)
            ELSE IF invalid_word_length(attempt)
            THEN Outcome(env, "InvalidWordLength", <<>>)
            ELSE IF too_many_attempts(attempts)
            THEN Outcome(env, "TooManyAttempts", <<>>)
            ELSE submit_attempt_record(env, player, puzzle_id, attempt,
                                       puzzle, attempts)

submit_attempt(env, auth, player, puzzle_id, attempt) ==
    IF require_auth_fails(auth, player)
    THEN Outcome(env, "HostAuthError", <<>>)
    ELSE IF invalid_word_length(attempt)
    THEN Outcome(env, "InvalidWordLength", <<>>)
    ELSE IF puzzle_id \notin DOMAIN env.Puzzle
    THEN Outcome(env, "PuzzleNotFound", <<>>)
    ELSE
        LET puzzle == env.Puzzle[puzzle_id]
            attempts == unwrap_or(
                storage_get(env.Attempts, attempts_key(puzzle_id, player)),
                <<>>)
        IN  IF submit_status_rejected(puzzle)
            THEN Outcome(env, "PuzzleNotOpen", <<>>)
            ELSE IF too_many_attempts(attempts)
            THEN Outcome(env, "TooManyAttempts", <<>>)
            ELSE submit_attempt_record(env, player, puzzle_id, attempt,
                                       puzzle, attempts)

\* The comparison of the digests inverted.
commitment_mismatch_inverted(answer, puzzle) ==
    sha256(answer) = puzzle.answer_commitment

\* reveal_answer with the commitment check left out.
commitment_unchecked(answer, puzzle) == FALSE

\* Lines 396-399: the digest of the plaintext against the commitment.
commitment_mismatch(answer, puzzle) ==
    LET revealed_hash == sha256(answer)
    IN  revealed_hash # puzzle.answer_commitment

\* The status set to Revealed and the answer left empty.
revealed_without_answer(puzzle, answer) ==
    [puzzle EXCEPT !.status = "Revealed"]

\* Lines 401-402: the puzzle as reveal_answer stores it.
revealed(puzzle, answer) ==
    [puzzle EXCEPT !.status = "Revealed", !.answer = answer]

reveal_answer(env, auth, puzzle_id, answer) ==
    LET admin == get_admin(env) IN
    IF admin = <<>> THEN Outcome(env, "NotInitialized", <<>>)
    ELSE IF require_auth_fails(auth, admin[1])
    THEN Outcome(env, "HostAuthError", <<>>)
    ELSE IF invalid_word_length(answer)
    THEN Outcome(env, "InvalidWordLength", <<>>)
    ELSE IF puzzle_id \notin DOMAIN env.Puzzle
    THEN Outcome(env, "PuzzleNotFound", <<>>)
    ELSE
        LET puzzle == env.Puzzle[puzzle_id]
        IN  IF puzzle.status # "Open"
            THEN Outcome(env, "PuzzleAlreadyFinalized", <<>>)
            ELSE IF commitment_mismatch(answer, puzzle)
            THEN Outcome(env, "CommitmentMismatch", <<>>)
            ELSE
                Outcome([env EXCEPT
                            !.Puzzle = persist_set(@, puzzle_id,
                                revealed(puzzle, answer))],
                        "Ok",
                        << [event |-> "AnswerRevealed",
                            puzzle_id |-> puzzle_id] >>)

\* The scored attempts stored in reverse order.
score_attempts_reversed(attempts, answer) ==
    [i \in 1..Len(attempts) |->
        Attempt(attempts[Len(attempts) + 1 - i].guess,
                score_guess(attempts[Len(attempts) + 1 - i].guess, answer))]

\* The scoring loop stopping one attempt early, the last one kept unscored.
score_attempts_all_but_last(attempts, answer) ==
    [i \in 1..Len(attempts) |->
        IF i < Len(attempts)
        THEN Attempt(attempts[i].guess,
                     score_guess(attempts[i].guess, answer))
        ELSE attempts[i]]

\* The inner loop of finalize_result (lines 462-477): every attempt of one
\* player scored against the answer, guesses and order kept.
score_attempts(attempts, answer) ==
    [i \in 1..Len(attempts) |->
        Attempt(attempts[i].guess, score_guess(attempts[i].guess, answer))]

\* player_won overwritten by every attempt instead of only ever set.
player_won_last_attempt(scored) ==
    Len(scored) > 0 /\ is_all_correct(scored[Len(scored)].scores)

player_won(scored) ==
    \E i \in 1..Len(scored) : is_all_correct(scored[i].scores)

\* The winner count incremented for every player of the list.
count_winner_every_player(winner_count, won) == winner_count + 1

\* Line 483: the winner count after one player of the loop.
count_winner(winner_count, won) ==
    IF won THEN winner_count + 1 ELSE winner_count

\* The body of the loop over the PlayerList (lines 456-484) for player p;
\* acc holds the storage, the winner count so far and whether the checked
\* addition has failed (which ends finalize_result with Overflow).
finalize_player(acc, p, puzzle_id, answer) ==
    LET env == acc.env
        attempts == unwrap_or(
            storage_get(env.Attempts, attempts_key(puzzle_id, p)), <<>>)
        scored == score_attempts(attempts, answer)
        won == player_won(scored)
        env1 == [env EXCEPT
                    !.Attempts = persist_set(@, attempts_key(puzzle_id, p),
                                             scored)]
        env2 == IF won
                THEN [env1 EXCEPT
                         !.Winner = persist_set(@, <<puzzle_id, p>>, TRUE)]
                ELSE env1
    IN  IF won /\ checked_add_overflows(acc.winner_count)
        THEN [env |-> env2, winner_count |-> acc.winner_count,
              overflow |-> TRUE]
        ELSE [env |-> env2,
              winner_count |-> count_winner(acc.winner_count, won),
              overflow |-> FALSE]

\* The loop scoring only the first player of the list.
finalize_players_first_only(acc, players, lo, hi, puzzle_id, answer) ==
    IF Len(players) = 0 THEN acc
    ELSE finalize_player(acc, players[1], puzzle_id, answer)

\* The loop over the PlayerList (lines 455-485) for its players lo .. hi in
\* order, stopping at a failed addition (the range is split in halves to
\* keep the evaluation shallow for a list of MAX_PLAYERS_PER_PUZZLE).
RECURSIVE finalize_players(_, _, _, _, _, _)
finalize_players(acc, players, lo, hi, puzzle_id, answer) ==
    IF acc.overflow \/ lo > hi THEN acc
    ELSE IF lo = hi THEN finalize_player(acc, players[lo], puzzle_id, answer)
    ELSE
        LET mid == (lo + hi) \div 2
            left == finalize_players(acc, players, lo, mid, puzzle_id, answer)
        IN  IF left.overflow THEN left
            ELSE finalize_players(left, players, mid + 1, hi, puzzle_id,
                                  answer)

\* The loop run for the player of the call only.
players_to_score_named_only(env, player, puzzle_id) ==
    LET players == unwrap_or(storage_get(env.PlayerList, puzzle_id), <<>>)
    IN  IF \E i \in 1..Len(players) : players[i] = player
        THEN <<player>>
        ELSE <<>>

\* Lines 441-451: the player argument is dropped and the loop runs over the
\* stored PlayerList.
players_to_score(env, player, puzzle_id) ==
    unwrap_or(storage_get(env.PlayerList, puzzle_id), <<>>)

\* finalize_result refusing only an Open puzzle.
finalize_status_error_rerun(puzzle) ==
    IF puzzle.status = "Open" THEN "AnswerNotRevealed" ELSE "Ok"

\* finalize_result with the Open and the Finalized answers exchanged.
finalize_status_error_swapped(puzzle) ==
    IF puzzle.status = "Finalized" THEN "AnswerNotRevealed"
    ELSE IF puzzle.status # "Revealed" THEN "PuzzleAlreadyFinalized"
    ELSE "Ok"

\* finalize_result accepting every puzzle that is not Finalized.
finalize_status_error_open_accepted(puzzle) ==
    IF puzzle.status = "Finalized" THEN "PuzzleAlreadyFinalized" ELSE "Ok"

\* Lines 434-439: the status checks of finalize_result.
finalize_status_error(puzzle) ==
    IF puzzle.status = "Finalized" THEN "PuzzleAlreadyFinalized"
    ELSE IF puzzle.status # "Revealed" THEN "AnswerNotRevealed"
    ELSE "Ok"

finalize_result(env, auth, player, puzzle_id) ==
    LET admin == get_admin(env) IN
    IF admin = <<>> THEN Outcome(env, "NotInitialized", <<>>)
    ELSE IF require_auth_fails(auth, admin[1])
    THEN Outcome(env, "HostAuthError", <<>>)
    ELSE IF puzzle_id \notin DOMAIN env.Puzzle
    THEN Outcome(env, "PuzzleNotFound", <<>>)
    ELSE
        LET puzzle == env.Puzzle[puzzle_id] IN
        IF finalize_status_error(puzzle) # "Ok"
        THEN Outcome(env, finalize_status_error(puzzle), <<>>)
        ELSE
            LET answer == puzzle.answer
                players == players_to_score(env, player, puzzle_id)
                loop == finalize_players(
                            [env |-> env, winner_count |-> 0,
                             overflow |-> FALSE],
                            players, 1, Len(players), puzzle_id, answer)
                done == [puzzle EXCEPT !.status = "Finalized",
                                       !.winner_count = loop.winner_count]
            IN  IF loop.overflow
                THEN Outcome(loop.env, "Overflow", <<>>)
                ELSE Outcome([loop.env EXCEPT
                                 !.Puzzle = persist_set(@, puzzle_id, done)],
                             "Ok",
                             << [event |-> "PuzzleFinalized",
                                 puzzle_id |-> puzzle_id,
                                 answer |-> answer,
                                 winner_count |-> loop.winner_count] >>)

\* Read-only entry points.
get_attempts(env, player, puzzle_id) ==
    unwrap_or(storage_get(env.Attempts, attempts_key(puzzle_id, player)),
              <<>>)

get_puzzle(env, puzzle_id) == storage_get(env.Puzzle, puzzle_id)

is_winner(env, puzzle_id, player) ==
    unwrap_or(storage_get(env.Winner, <<puzzle_id, player>>), FALSE)

\* ------------------------------------------------------------------------
\* The state machine: one action per entry point
\* ------------------------------------------------------------------------

Init ==
    /\ instance = NoEntries
    /\ Puzzle = NoEntries
    /\ PlayerList = NoEntries
    /\ Attempts = NoEntries
    /\ Winner = NoEntries
    /\ last = [op |-> "none", result |-> "Ok", events |-> <<>>]

\* The invocation's outcome becomes the state.
Commit(op, outcome) ==
    LET out == outcome IN
    /\ instance' = out.env.instance
    /\ Puzzle' = out.env.Puzzle
    /\ PlayerList' = out.env.PlayerList
    /\ Attempts' = out.env.Attempts
    /\ Winner' = out.env.Winner
    /\ last' = [op |-> op, result |-> out.result, events |-> out.events]

\* Attempt records stored over all puzzles and players.
RECURSIVE SumLen(_, _)
SumLen(map, keys) ==
    IF keys = {} THEN 0
    ELSE LET k == CHOOSE x \in keys : TRUE
         IN  Len(map[k]) + SumLen(map, keys \ {k})

Stored == SumLen(Attempts, DOMAIN Attempts)

Call_init ==
    \E auth \in AdminCallers, admin \in AdminArgs :
        Commit("init", init(Storage, auth, admin, "pool", "balance"))

Call_create_daily_puzzle ==
    \E auth \in AdminCallers, puzzle_id \in PuzzleIds, c \in Commitments :
        Commit("create_daily_puzzle",
               create_daily_puzzle(Storage, auth, puzzle_id, c))

Call_submit_attempt ==
    \E player \in Players, puzzle_id \in PuzzleIds, attempt \in Words :
        \E auth \in {player, "admin"} :
            LET out == submit_attempt(Storage, auth, player, puzzle_id,
                                      attempt)
            IN  /\ out.result = "Ok" => Stored < MaxStored
                /\ Commit("submit_attempt", out)

Call_reveal_answer ==
    \E auth \in AdminCallers, puzzle_id \in PuzzleIds, answer \in Words :
        Commit("reveal_answer",
               reveal_answer(Storage, auth, puzzle_id, answer))

Call_finalize_result ==
    \E auth \in AdminCallers, player \in Players, puzzle_id \in PuzzleIds :
        Commit("finalize_result",
               finalize_result(Storage, auth, player, puzzle_id))

Next ==
    \/ Call_init
    \/ Call_create_daily_puzzle
    \/ Call_submit_attempt
    \/ Call_reveal_answer
    \/ Call_finalize_result

Spec == Init /\ [][Next]_vars

\* ---------------------------------------------------------------------
\* Scoring: every guess against every answer, over a small alphabet and the
\* words of test_scoring_duplicate_letters.  The state machine starts where
\* one player has submitted the guess and the administrator has revealed
\* the answer, and finalize_result scores the guess.

AlphabetSize == 2

Alphabet == 65..(64 + AlphabetSize)

SPEED == <<83, 80, 69, 69, 68>>

EERIE == <<69, 69, 82, 73, 69>>

ScoreWords == [Positions -> Alphabet] \cup {SPEED, EERIE}

ScorePlayer == "alice"

\* The calls that lead to the revealed puzzle: init, create_daily_puzzle
\* with the commitment of the answer, submit_attempt of the guess,
\* reveal_answer.
RevealedAfterGuess(guess, answer) ==
    LET env0 == [instance |-> NoEntries, Puzzle |-> NoEntries,
                 PlayerList |-> NoEntries, Attempts |-> NoEntries,
                 Winner |-> NoEntries]
        env1 == init(env0, "admin", "admin", "pool", "balance").env
        env2 == create_daily_puzzle(env1, "admin", 1, sha256(answer)).env
        env3 == submit_attempt(env2, ScorePlayer, ScorePlayer, 1, guess).env
    IN  reveal_answer(env3, "admin", 1, answer)

InitScore ==
    \E guess \in ScoreWords, answer \in ScoreWords :
        LET out == RevealedAfterGuess(guess, answer)
        IN  /\ instance = out.env.instance
            /\ Puzzle = out.env.Puzzle
            /\ PlayerList = out.env.PlayerList
            /\ Attempts = out.env.Attempts
            /\ Winner = out.env.Winner
            /\ last = [op |-> "reveal_answer", result |-> out.result,
                       events |-> out.events]

Call_finalize_result_score ==
    \E puzzle_id \in PuzzleIds :
        Commit("finalize_result",
               finalize_result(Storage, "admin", ScorePlayer, puzzle_id))

NextScore == Call_finalize_result_score

SpecScore == InitScore /\ [][NextScore]_vars

\* ---------------------------------------------------------------------
\* Two puzzles side by side: the entry points called for two puzzle ids by
\* the administrator and two players, with at most MaxStoredTwo attempts
\* stored in all.

MaxStoredTwo == 3

PuzzleIdsTwo == {1, 2}

WordsTwo == {CRANE, STALE}

Call_init_two ==
    Commit("init", init(Storage, "admin", "admin", "pool", "balance"))

Call_create_daily_puzzle_two ==
    \E puzzle_id \in PuzzleIdsTwo :
        Commit("create_daily_puzzle",
               create_daily_puzzle(Storage, "admin", puzzle_id,
                                   sha256(CRANE)))

Call_submit_attempt_two ==
    \E player \in Players, puzzle_id \in PuzzleIdsTwo, attempt \in WordsTwo :
        LET out == submit_attempt(Storage, player, player, puzzle_id, attempt)
        IN  /\ out.result = "Ok" => Stored < MaxStoredTwo
            /\ Commit("submit_attempt", out)

Call_reveal_answer_two ==
    \E puzzle_id \in PuzzleIdsTwo :
        Commit("reveal_answer",
               reveal_answer(Storage, "admin", puzzle_id, CRANE))

Call_finalize_result_two ==
    \E puzzle_id \in PuzzleIdsTwo, player \in Players :
        Commit("finalize_result",
               finalize_result(Storage, "admin", player, puzzle_id))

NextTwo ==
    \/ Call_init_two
    \/ Call_create_daily_puzzle_two
    \/ Call_submit_attempt_two
    \/ Call_reveal_answer_two
    \/ Call_finalize_result_two

SpecTwo == Init /\ [][NextTwo]_vars

\* ---------------------------------------------------------------------
\* The player cap: the state machine starts where all but Vacancies of the
\* MAX_PLAYERS_PER_PUZZLE places of a puzzle are taken, each by a player
\* with one attempt; two newcomers and one of the registered players then
\* submit, and the administrator may reveal.

Vacancies == 1

Crowd == MAX_PLAYERS_PER_PUZZLE - Vacancies

Newcomers == {"alice", "bob"}

Regular == ToString(1)

FullPlayers == Newcomers \cup {Regular}

FullWords == {CRANE, HI}

\* The outcome of init and create_daily_puzzle from the empty storage.
Created ==
    LET env0 == [instance |-> NoEntries, Puzzle |-> NoEntries,
                 PlayerList |-> NoEntries, Attempts |-> NoEntries,
                 Winner |-> NoEntries]
        env1 == init(env0, "admin", "admin", "pool", "balance").env
    IN  create_daily_puzzle(env1, "admin", 1, sha256(CRANE))

\* The outcome of the last of the calls submit_attempt by the players
\* ToString(lo) .. ToString(hi), one each and in this order, made after the
\* call with outcome out (the calls are split in halves to keep the
\* evaluation shallow).
RECURSIVE CrowdedAfter(_, _, _)
CrowdedAfter(out, lo, hi) ==
    IF lo = hi
    THEN submit_attempt(out.env, ToString(lo), ToString(lo), 1, STALE)
    ELSE
        LET mid == (lo + hi) \div 2
            left == CrowdedAfter(out, lo, mid)
        IN  IF left.result = "Ok"
            THEN CrowdedAfter(left, mid + 1, hi)
            ELSE left

InitFull ==
    LET out == CrowdedAfter(Created, 1, Crowd)
    IN  /\ instance = out.env.instance
        /\ Puzzle = out.env.Puzzle
        /\ PlayerList = out.env.PlayerList
        /\ Attempts = out.env.Attempts
        /\ Winner = out.env.Winner
        /\ last = [op |-> "submit_attempt", result |-> out.result,
                   events |-> out.events]

Call_submit_attempt_full ==
    \E player \in FullPlayers, puzzle_id \in PuzzleIds,
       attempt \in FullWords :
        Commit("submit_attempt",
               submit_attempt(Storage, player, player, puzzle_id, attempt))

Call_reveal_answer_full ==
    \E puzzle_id \in PuzzleIds :
        Commit("reveal_answer",
               reveal_answer(Storage, "admin", puzzle_id, CRANE))

NextFull ==
    \/ Call_submit_attempt_full
    \/ Call_reveal_answer_full

SpecFull == InitFull /\ [][NextFull]_vars

\* ---------------------------------------------------------------------
\* Finalization at the player cap: from the same crowded state the
\* newcomers submit the answer up to their attempt cap, the administrator
\* reveals it and finalize_result scores the whole PlayerList.

Call_submit_attempt_crowd ==
    \E player \in Newcomers, puzzle_id \in PuzzleIds :
        Commit("submit_attempt",
               submit_attempt(Storage, player, player, puzzle_id, CRANE))

Call_finalize_result_crowd ==
    \E puzzle_id \in PuzzleIds :
        Commit("finalize_result",
               finalize_result(Storage, "admin", Regular, puzzle_id))

NextCrowd ==
    \/ Call_submit_attempt_crowd
    \/ Call_reveal_answer_full
    \/ Call_finalize_result_crowd

SpecCrowd == InitFull /\ [][NextCrowd]_vars

\* ------------------------------------------------------------------------
\* Properties
\* ------------------------------------------------------------------------

\* The administrator once init has succeeded.
Admin == unwrap_or(get_admin(Storage), "unset")

\* The last call succeeded, was `op`, and its event names puzzle `id`.
Succeeded(call, op, id) ==
    /\ call.op = op
    /\ call.result = "Ok"
    /\ Len(call.events) = 1
    /\ call.events[1].puzzle_id = id

\* C1: a puzzle's status changes only Open -> Revealed, by a successful
\* reveal_answer of that puzzle, and Revealed -> Finalized, by a successful
\* finalize_result of that puzzle; it never regresses, never skips from Open
\* to Finalized, never leaves Finalized, and the puzzle stays stored.
C1_StatusSteps ==
    [][\A id \in DOMAIN Puzzle :
          /\ id \in DOMAIN Puzzle'
          /\ \/ Puzzle'[id].status = Puzzle[id].status
             \/ /\ Puzzle[id].status = "Open"
                /\ Puzzle'[id].status = "Revealed"
                /\ Succeeded(last', "reveal_answer", id)
             \/ /\ Puzzle[id].status = "Revealed"
                /\ Puzzle'[id].status = "Finalized"
                /\ Succeeded(last', "finalize_result", id)]_vars

\* A Finalized puzzle on which a later reveal_answer was tried and refused.
C1_Witness ==
    /\ 1 \in DOMAIN Puzzle
    /\ Puzzle[1].status = "Finalized"
    /\ last.op = "reveal_answer"
    /\ last.result = "PuzzleAlreadyFinalized"

\* C2: a Revealed or Finalized puzzle stores an answer whose digest is the
\* commitment given at creation, and the attempts of a Finalized puzzle carry
\* the scores of their guesses against that stored answer, which the
\* PuzzleFinalized event reports; the commitment never changes and the stored
\* answer changes only in a successful reveal_answer of that puzzle.
C2_CommittedAnswer ==
    /\ [](\A id \in DOMAIN Puzzle :
            /\ Puzzle[id].status \in {"Revealed", "Finalized"}
                  => sha256(Puzzle[id].answer) = Puzzle[id].answer_commitment
            /\ Puzzle[id].status = "Finalized"
                  => \A k \in DOMAIN Attempts :
                        k[1] = id =>
                            \A i \in 1..Len(Attempts[k]) :
                                Attempts[k][i].scores =
                                    score_guess(Attempts[k][i].guess,
                                                Puzzle[id].answer)
            /\ Succeeded(last, "finalize_result", id)
                  => last.events[1].answer = Puzzle[id].answer)
    /\ [][\A id \in DOMAIN Puzzle' :
            LET new == Puzzle'[id]
                old == unwrap_or(storage_get(Puzzle, id),
                                 PuzzleData(new.answer_commitment, "Open",
                                            <<>>, 0, 0))
            IN  /\ new.answer_commitment = old.answer_commitment
                /\ new.answer # old.answer
                      => Succeeded(last', "reveal_answer", id)]_vars

\* A finalized puzzle with a scored attempt.
C2_Witness ==
    /\ Succeeded(last, "finalize_result", 1)
    /\ Puzzle[1].answer # <<>>
    /\ \E k \in DOMAIN Attempts : Len(Attempts[k]) > 0

\* C3: reveal_answer by the administrator on an Open puzzle with an answer
\* of WORD_LENGTH bytes succeeds iff the digest of the answer is the stored
\* commitment; on a mismatch it returns CommitmentMismatch and every record
\* is as before.
C3_RevealIffCommitment ==
    \A id \in DOMAIN Puzzle, answer \in Words :
        (Puzzle[id].status = "Open" /\ Len(answer) = WORD_LENGTH) =>
            LET out == reveal_answer(Storage, Admin, id, answer)
                same == sha256(answer) = Puzzle[id].answer_commitment
            IN  /\ out.result = "Ok" <=> same
                /\ same => /\ out.env.Puzzle[id].status = "Revealed"
                           /\ out.env.Puzzle[id].answer = answer
                /\ ~same => /\ out.result = "CommitmentMismatch"
                            /\ out.env = Storage

\* A reveal_answer was refused for its digest, the puzzle still Open.
C3_Witness ==
    /\ last.op = "reveal_answer"
    /\ last.result = "CommitmentMismatch"
    /\ 1 \in DOMAIN Puzzle
    /\ Puzzle[1].status = "Open"
    /\ Puzzle[1].answer = <<>>

\* C4 as stated: no (puzzle, player) pair stores more than MAX_ATTEMPTS
\* attempts, and for a player who has MAX_ATTEMPTS attempts for a puzzle
\* every submit_attempt of that player for that puzzle, whatever the guess,
\* returns TooManyAttempts and stores nothing.
C4_Original ==
    /\ \A k \in DOMAIN Attempts : Len(Attempts[k]) <= MAX_ATTEMPTS
    /\ \A id \in DOMAIN Puzzle, player \in Players, attempt \in Words :
          Len(get_attempts(Storage, player, id)) = MAX_ATTEMPTS =>
              LET out == submit_attempt(Storage, player, player, id, attempt)
              IN  /\ out.result = "TooManyAttempts"
                  /\ out.env = Storage

\* C4 (amended): no (puzzle, player) pair stores more than MAX_ATTEMPTS
\* attempts, and for a player who has MAX_ATTEMPTS attempts for a puzzle
\* every submit_attempt of that player for that puzzle fails and stores
\* nothing: with InvalidWordLength when the guess has not WORD_LENGTH bytes,
\* else with PuzzleNotOpen when the puzzle is no longer Open, else with
\* TooManyAttempts.
C4_AttemptCap ==
    /\ \A k \in DOMAIN Attempts : Len(Attempts[k]) <= MAX_ATTEMPTS
    /\ \A id \in DOMAIN Puzzle, player \in Players, attempt \in Words :
          Len(get_attempts(Storage, player, id)) = MAX_ATTEMPTS =>
              LET out == submit_attempt(Storage, player, player, id, attempt)
              IN  /\ out.result =
                        IF Len(attempt) # WORD_LENGTH
                        THEN "InvalidWordLength"
                        ELSE IF Puzzle[id].status # "Open"
                        THEN "PuzzleNotOpen"
                        ELSE "TooManyAttempts"
                  /\ out.events = <<>>
                  /\ out.env = Storage

\* A player with MAX_ATTEMPTS attempts was refused one more.
C4_Witness ==
    /\ last.op = "submit_attempt"
    /\ last.result = "TooManyAttempts"
    /\ \E k \in DOMAIN Attempts : Len(Attempts[k]) = MAX_ATTEMPTS

\* The player has a recorded attempt for the puzzle whose guess is `answer`.
Guessed(attempts, id, player, answer) ==
    \E i \in 1..Len(get_attempts([Attempts |-> attempts], player, id)) :
        get_attempts([Attempts |-> attempts], player, id)[i].guess = answer

\* C5: once a puzzle is Finalized, is_winner(puzzle, p) holds iff p has a
\* recorded attempt, in any position, whose guess is the revealed answer;
\* no Winner flag is set while the puzzle is not Finalized, and a flag that
\* is set stays set.
C5_WinnerIffGuessed ==
    /\ [](\A id \in PuzzleIds, p \in Players :
            IF id \in DOMAIN Puzzle /\ Puzzle[id].status = "Finalized"
            THEN is_winner(Storage, id, p)
                    <=> Guessed(Attempts, id, p, Puzzle[id].answer)
            ELSE ~is_winner(Storage, id, p))
    /\ [][\A id \in PuzzleIds, p \in Players :
            is_winner(Storage, id, p) => is_winner(Storage', id, p)]_vars

\* A winner on the last allowed guess, the MAX_ATTEMPTS-th and the only exact
\* one, and a later call that left the flag set.
C5_Witness ==
    /\ 1 \in DOMAIN Puzzle
    /\ Puzzle[1].status = "Finalized"
    /\ last.op # "finalize_result"
    /\ \E p \in Players :
          LET a == get_attempts(Storage, p, 1)
          IN  /\ is_winner(Storage, 1, p)
              /\ Len(a) = MAX_ATTEMPTS
              /\ \A i \in 1..Len(a) :
                    a[i].guess = Puzzle[1].answer <=> i = MAX_ATTEMPTS

\* C6: a puzzle's winner_count is the number of players whose Winner flag
\* for that puzzle is set (zero of both until the puzzle is Finalized).
C6_WinnerCount ==
    \A id \in DOMAIN Puzzle :
        /\ Puzzle[id].winner_count =
              Cardinality({p \in Players : is_winner(Storage, id, p)})
        /\ Puzzle[id].status # "Finalized" => Puzzle[id].winner_count = 0

\* Both players guessed the answer: two winners and a count of two.
C6_Witness ==
    /\ 1 \in DOMAIN Puzzle
    /\ Puzzle[1].status = "Finalized"
    /\ Puzzle[1].winner_count = 2
    /\ \A p \in Players : is_winner(Storage, 1, p)

\* C7: finalize_result by the administrator on a Finalized puzzle returns
\* PuzzleAlreadyFinalized and changes no record (winner_count, Winner flags
\* and scores among them), whatever its player argument.
C7_FinalizeOnce ==
    \A id \in DOMAIN Puzzle, player \in Players :
        Puzzle[id].status = "Finalized" =>
            LET out == finalize_result(Storage, Admin, player, id)
            IN  /\ out.result = "PuzzleAlreadyFinalized"
                /\ out.events = <<>>
                /\ out.env = Storage

\* A second finalize_result was refused on a puzzle with a winner.
C7_Witness ==
    /\ last.op = "finalize_result"
    /\ last.result = "PuzzleAlreadyFinalized"
    /\ 1 \in DOMAIN Puzzle
    /\ Puzzle[1].status = "Finalized"
    /\ Puzzle[1].winner_count > 0

\* C8: on a Revealed or Finalized puzzle, submit_attempt of any player with
\* any guess of WORD_LENGTH bytes returns PuzzleNotOpen and changes no
\* record (attempt lists, PlayerList and player_count among them).
C8_NoSubmitAfterReveal ==
    \A id \in DOMAIN Puzzle, player \in Players, attempt \in Words :
        (Puzzle[id].status \in {"Revealed", "Finalized"}
            /\ Len(attempt) = WORD_LENGTH) =>
            LET out == submit_attempt(Storage, player, player, id, attempt)
            IN  /\ out.result = "PuzzleNotOpen"
                /\ out.events = <<>>
                /\ out.env = Storage

\* A submit_attempt was refused on a puzzle revealed but not yet finalized.
C8_Witness ==
    /\ last.op = "submit_attempt"
    /\ last.result = "PuzzleNotOpen"
    /\ 1 \in DOMAIN Puzzle
    /\ Puzzle[1].status = "Revealed"

\* C9: finalize_result by the administrator on an Open puzzle returns
\* AnswerNotRevealed; the puzzle stays Open, no attempt is scored and no
\* winner is recorded.
C9_FinalizeNeedsReveal ==
    \A id \in DOMAIN Puzzle, player \in Players :
        Puzzle[id].status = "Open" =>
            LET out == finalize_result(Storage, Admin, player, id)
            IN  /\ out.result = "AnswerNotRevealed"
                /\ out.env = Storage
                /\ out.env.Puzzle[id].status = "Open"
                /\ \A k \in DOMAIN out.env.Attempts :
                      \A i \in 1..Len(out.env.Attempts[k]) :
                          out.env.Attempts[k][i].scores = <<>>
                /\ \A p \in Players : ~is_winner(out.env, id, p)

\* A finalize_result was refused on an Open puzzle that has attempts.
C9_Witness ==
    /\ last.op = "finalize_result"
    /\ last.result = "AnswerNotRevealed"
    /\ 1 \in DOMAIN Puzzle
    /\ Puzzle[1].status = "Open"
    /\ \E k \in DOMAIN Attempts : Len(Attempts[k]) > 0

\* C10: a call that returns an error leaves every stored record (admin,
\* puzzles, PlayerLists, attempt lists, Winner flags) as it was.
C10_ErrorsChangeNothing ==
    [][last'.result # "Ok" =>
          UNCHANGED <<instance, Puzzle, PlayerList, Attempts, Winner>>]_vars

\* A refused create_daily_puzzle on a puzzle that has players.
C10_Witness ==
    /\ last.op = "create_daily_puzzle"
    /\ last.result = "PuzzleAlreadyExists"
    /\ 1 \in DOMAIN PlayerList
    /\ Len(PlayerList[1]) > 0

\* C11: once the administrator is stored, create_daily_puzzle, reveal_answer
\* and finalize_result called by any identity other than the administrator
\* return the error NotAuthorized and leave the storage as it was.
C11_Original ==
    get_admin(Storage) # <<>> =>
        \A auth \in Addresses \ {Admin}, puzzle_id \in PuzzleIds :
            /\ \A c \in Commitments :
                   create_daily_puzzle(Storage, auth, puzzle_id, c)
                       = Outcome(Storage, "NotAuthorized", <<>>)
            /\ \A answer \in Words :
                   reveal_answer(Storage, auth, puzzle_id, answer)
                       = Outcome(Storage, "NotAuthorized", <<>>)
            /\ \A player \in Players :
                   finalize_result(Storage, auth, player, puzzle_id)
                       = Outcome(Storage, "NotAuthorized", <<>>)

\* C12: the administrator is set exactly once: a successful init happens only
\* while no administrator is stored and stores one; once one is stored, init
\* with any caller and any arguments returns AlreadyInitialized and changes
\* nothing, and no operation changes the stored administrator (nor any other
\* instance entry).
C12_AdminSetOnce ==
    /\ [](get_admin(Storage) # <<>> =>
            \A auth \in Addresses, admin \in Addresses,
               pool \in {"pool", "other"}, balance \in {"balance", "other"} :
                init(Storage, auth, admin, pool, balance)
                    = Outcome(Storage, "AlreadyInitialized", <<>>))
    /\ [][/\ (last'.op = "init" /\ last'.result = "Ok") =>
                 get_admin(Storage) = <<>> /\ get_admin(Storage') # <<>>
          /\ get_admin(Storage) # <<>> => instance' = instance]_vars

\* A second init refused while a puzzle is already finalized.
C12_Witness ==
    /\ last.op = "init"
    /\ last.result = "AlreadyInitialized"
    /\ Admin = "admin"
    /\ 1 \in DOMAIN Puzzle
    /\ Puzzle[1].status = "Finalized"

\* C13: create_daily_puzzle by the administrator with the id of a stored
\* puzzle returns PuzzleAlreadyExists and changes nothing; a stored puzzle
\* stays stored with the same answer_commitment, and is never reset: its
\* status never returns to Open, its answer is never emptied, and its
\* player_count and PlayerList never shrink.
C13_PuzzleCreatedOnce ==
    /\ [](\A puzzle_id \in DOMAIN Puzzle, c \in Commitments :
            create_daily_puzzle(Storage, Admin, puzzle_id, c)
                = Outcome(Storage, "PuzzleAlreadyExists", <<>>))
    /\ [][\A puzzle_id \in DOMAIN Puzzle :
            /\ puzzle_id \in DOMAIN Puzzle'
            /\ Puzzle'[puzzle_id].answer_commitment
                   = Puzzle[puzzle_id].answer_commitment
            /\ Puzzle[puzzle_id].status # "Open"
                   => Puzzle'[puzzle_id].status # "Open"
            /\ Puzzle[puzzle_id].answer # <<>>
                   => Puzzle'[puzzle_id].answer = Puzzle[puzzle_id].answer
            /\ Puzzle'[puzzle_id].player_count
                   >= Puzzle[puzzle_id].player_count
            /\ puzzle_id \in DOMAIN PlayerList'
            /\ Len(PlayerList'[puzzle_id]) >= Len(PlayerList[puzzle_id])]_vars

\* A create_daily_puzzle refused for a revealed puzzle with two players.
C13_Witness ==
    /\ last.op = "create_daily_puzzle"
    /\ last.result = "PuzzleAlreadyExists"
    /\ 1 \in DOMAIN Puzzle
    /\ Puzzle[1].status = "Revealed"
    /\ Puzzle[1].player_count = 2

\* C14: in every reachable state, a stored puzzle's answer is non-empty
\* exactly when its status is not Open.
C14_AnswerIffNotOpen ==
    \A puzzle_id \in DOMAIN Puzzle :
        Puzzle[puzzle_id].answer # <<>> <=> Puzzle[puzzle_id].status # "Open"

\* A reveal_answer has just stored the answer of a puzzle.
C14_Witness ==
    /\ Succeeded(last, "reveal_answer", 1)
    /\ Puzzle[1].status = "Revealed"
    /\ Len(Puzzle[1].answer) = WORD_LENGTH

\* C15: in every reachable state, every stored puzzle has a PlayerList and
\* its player_count equals the length of that list.
C15_PlayerCountIsListLength ==
    \A puzzle_id \in DOMAIN Puzzle :
        /\ puzzle_id \in DOMAIN PlayerList
        /\ Puzzle[puzzle_id].player_count = Len(PlayerList[puzzle_id])

\* The second player of a puzzle has just been registered.
C15_Witness ==
    /\ Succeeded(last, "submit_attempt", 1)
    /\ Len(PlayerList[1]) = 2
    /\ Puzzle[1].player_count = 2
    /\ Len(Attempts[<<1, PlayerList[1][2]>>]) = 1

\* C16: in every reachable state the scores of every stored attempt are
\* empty while its puzzle is not Finalized and have length WORD_LENGTH once
\* it is Finalized; and scores that are non-empty are never changed.
C16_ScoresEmptyOrFull ==
    /\ [](\A key \in DOMAIN Attempts :
            \A i \in 1..Len(Attempts[key]) :
                IF Puzzle[key[1]].status = "Finalized"
                THEN Len(Attempts[key][i].scores) = WORD_LENGTH
                ELSE Attempts[key][i].scores = <<>>)
    /\ [][\A key \in DOMAIN Attempts :
            \A i \in 1..Len(Attempts[key]) :
                Attempts[key][i].scores # <<>> =>
                    /\ key \in DOMAIN Attempts'
                    /\ Len(Attempts'[key]) >= i
                    /\ Attempts'[key][i] = Attempts[key][i]]_vars

\* A finalized puzzle whose two players hold scored attempts, one of them
\* three.
C16_Witness ==
    /\ 1 \in DOMAIN Puzzle
    /\ Puzzle[1].status = "Finalized"
    /\ \A player \in Players :
           /\ <<1, player>> \in DOMAIN Attempts
           /\ \A i \in 1..Len(Attempts[<<1, player>>]) :
                  Len(Attempts[<<1, player>>][i].scores) = WORD_LENGTH
    /\ \E player \in Players : Len(Attempts[<<1, player>>]) = 3

\* The guess and the scores stored for the scored player's first attempt.
ScoredAttempt == Attempts[<<1, ScorePlayer>>][1]

\* C17: for every guess and answer of WORD_LENGTH bytes, and every letter c,
\* the positions of the guess that hold c and are scored CORRECT or PRESENT
\* are no more than the positions of the answer that hold c; and the guess
\* EERIE against the answer SPEED is scored PRESENT, PRESENT, ABSENT, ABSENT,
\* ABSENT.
C17_DuplicateLetters ==
    Puzzle[1].status = "Finalized" =>
        LET guess == ScoredAttempt.guess
            scores == ScoredAttempt.scores
            answer == Puzzle[1].answer
        IN  /\ scores = score_guess(guess, answer)
            /\ \A c \in {guess[i] : i \in Positions} :
                   Cardinality({i \in Positions :
                                   /\ guess[i] = c
                                   /\ scores[i] \in {SCORE_CORRECT,
                                                     SCORE_PRESENT}})
                       <= Cardinality({j \in Positions : answer[j] = c})
            /\ (guess = EERIE /\ answer = SPEED) =>
                   scores = <<SCORE_PRESENT, SCORE_PRESENT, SCORE_ABSENT,
                              SCORE_ABSENT, SCORE_ABSENT>>

\* EERIE has been scored against SPEED.
C17_Witness ==
    /\ Succeeded(last, "finalize_result", 1)
    /\ Puzzle[1].answer = SPEED
    /\ ScoredAttempt.guess = EERIE
    /\ Len(ScoredAttempt.scores) = WORD_LENGTH

\* The reference two-pass scoring: the marks of the positions before i and
\* the answer positions consumed by them, then position i and the rest.
RECURSIVE ReferenceMarks(_, _, _, _, _)
ReferenceMarks(i, marks, consumed, guess, answer) ==
    IF i > WORD_LENGTH THEN marks
    ELSE IF guess[i] = answer[i]
    THEN ReferenceMarks(i + 1, Append(marks, SCORE_CORRECT), consumed, guess,
                        answer)
    ELSE
        LET open == {j \in Positions :
                        /\ guess[j] # answer[j]
                        /\ j \notin consumed
                        /\ answer[j] = guess[i]}
        IN  IF open = {}
            THEN ReferenceMarks(i + 1, Append(marks, SCORE_ABSENT), consumed,
                                guess, answer)
            ELSE ReferenceMarks(
                     i + 1, Append(marks, SCORE_PRESENT),
                     consumed \cup {CHOOSE j \in open :
                                        \A n \in open : j <= n},
                     guess, answer)

\* C23: for every guess and answer of WORD_LENGTH bytes, score_guess gives
\* the marks of the reference two-pass algorithm: CORRECT exactly at the
\* positions where guess and answer agree; at the other positions, taken
\* left to right, PRESENT when an answer position that is no exact match and
\* is not yet consumed holds the guess letter (the leftmost is consumed),
\* and ABSENT otherwise.
C23_ReferenceScoring ==
    Puzzle[1].status = "Finalized" =>
        LET guess == ScoredAttempt.guess
            answer == Puzzle[1].answer
            reference == ReferenceMarks(1, <<>>, {}, guess, answer)
        IN  /\ ScoredAttempt.scores = reference
            /\ score_guess(guess, answer) = reference
            /\ \A i \in Positions :
                   ScoredAttempt.scores[i] = SCORE_CORRECT
                       <=> guess[i] = answer[i]

\* A guess has been scored with an exact match of a letter that it also
\* holds at another position, where it is marked ABSENT, the answer holding
\* the letter once.
C23_Witness ==
    /\ Succeeded(last, "finalize_result", 1)
    /\ \E i, j \in Positions :
           /\ ScoredAttempt.guess[i] = ScoredAttempt.guess[j]
           /\ ScoredAttempt.scores[i] = SCORE_CORRECT
           /\ ScoredAttempt.scores[j] = SCORE_ABSENT
           /\ \A k \in Positions :
                  Puzzle[1].answer[k] = ScoredAttempt.guess[i] => k = i

\* C18: for every guess and answer of WORD_LENGTH bytes, is_all_correct
\* holds of score_guess(guess, answer) exactly when the guess equals the
\* answer.
C18_AllCorrectIffEqual ==
    Puzzle[1].status = "Finalized" =>
        /\ is_all_correct(ScoredAttempt.scores)
               <=> ScoredAttempt.guess = Puzzle[1].answer
        /\ is_winner(Storage, 1, ScorePlayer)
               <=> ScoredAttempt.guess = Puzzle[1].answer

\* A guess that has the letters of the answer in another order has been
\* scored, with no position ABSENT.
C18_Witness ==
    /\ Succeeded(last, "finalize_result", 1)
    /\ ScoredAttempt.guess # Puzzle[1].answer
    /\ Len(ScoredAttempt.scores) = WORD_LENGTH
    /\ \A i \in Positions : ScoredAttempt.scores[i] # SCORE_ABSENT

\* The player has no attempt stored for the puzzle, which is what
\* submit_attempt takes for "not yet in the PlayerList".
Unlisted(player, puzzle_id) ==
    Len(get_attempts(Storage, player, puzzle_id)) = 0

AtCapacity(puzzle_id) ==
    /\ puzzle_id \in DOMAIN PlayerList
    /\ Len(PlayerList[puzzle_id]) = MAX_PLAYERS_PER_PUZZLE

\* C19 as stated: a PlayerList has at most MAX_PLAYERS_PER_PUZZLE entries;
\* when it is at capacity, the first submit_attempt of a player who is not
\* in it returns PuzzleFull and changes nothing, and a player who is in it
\* and has fewer than MAX_ATTEMPTS attempts can still submit.
C19_Original ==
    \A puzzle_id \in PuzzleIds :
        /\ puzzle_id \in DOMAIN PlayerList =>
               Len(PlayerList[puzzle_id]) <= MAX_PLAYERS_PER_PUZZLE
        /\ AtCapacity(puzzle_id) =>
               \A player \in FullPlayers, attempt \in FullWords :
                   Unlisted(player, puzzle_id) =>
                       submit_attempt(Storage, player, player, puzzle_id,
                                      attempt)
                           = Outcome(Storage, "PuzzleFull", <<>>)

\* C19, amended: a PlayerList has at most MAX_PLAYERS_PER_PUZZLE entries;
\* when it is at capacity, the first submit_attempt of a player who is not
\* in it changes nothing and returns InvalidWordLength for a guess of
\* another length than WORD_LENGTH, else PuzzleNotOpen when the puzzle is
\* not Open, else PuzzleFull; a player who is in it and has fewer than
\* MAX_ATTEMPTS attempts still has a guess of WORD_LENGTH bytes recorded
\* while the puzzle is Open, the PlayerList staying as it is.
C19_PlayerCap ==
    \A puzzle_id \in PuzzleIds :
        /\ puzzle_id \in DOMAIN PlayerList =>
               Len(PlayerList[puzzle_id]) <= MAX_PLAYERS_PER_PUZZLE
        /\ AtCapacity(puzzle_id) =>
               \A player \in FullPlayers, attempt \in FullWords :
                   LET out == submit_attempt(Storage, player, player,
                                             puzzle_id, attempt)
                       attempts == get_attempts(Storage, player, puzzle_id)
                   IN  /\ Unlisted(player, puzzle_id) =>
                              out = Outcome(Storage,
                                  IF Len(attempt) # WORD_LENGTH
                                  THEN "InvalidWordLength"
                                  ELSE IF Puzzle[puzzle_id].status # "Open"
                                  THEN "PuzzleNotOpen"
                                  ELSE "PuzzleFull",
                                  <<>>)
                       /\ (/\ ~Unlisted(player, puzzle_id)
                           /\ Len(attempts) < MAX_ATTEMPTS
                           /\ Len(attempt) = WORD_LENGTH
                           /\ Puzzle[puzzle_id].status = "Open") =>
                              /\ out.result = "Ok"
                              /\ get_attempts(out.env, player, puzzle_id)
                                     = Append(attempts, Attempt(attempt, <<>>))
                              /\ out.env.PlayerList = PlayerList
                              /\ out.env.Puzzle = Puzzle

\* A newcomer has just been refused with PuzzleFull at a full PlayerList,
\* one of whose players holds three attempts.
C19_Witness ==
    /\ last.op = "submit_attempt"
    /\ last.result = "PuzzleFull"
    /\ AtCapacity(1)
    /\ \E player \in FullPlayers :
           Len(get_attempts(Storage, player, 1)) = 3

\* C20: in every reachable state a PlayerList has no identity twice, and a
\* player is in it exactly when the player has at least one recorded attempt
\* for the puzzle; every step keeps the list as a prefix of the new list.
C20_PlayerListAppendOnly ==
    /\ [](\A puzzle_id \in DOMAIN PlayerList :
            LET players == PlayerList[puzzle_id] IN
            /\ \A i, j \in 1..Len(players) :
                   players[i] = players[j] => i = j
            /\ \A player \in Addresses :
                   (\E i \in 1..Len(players) : players[i] = player)
                       <=> Len(get_attempts(Storage, player, puzzle_id)) > 0)
    /\ [][\A puzzle_id \in DOMAIN PlayerList :
            /\ puzzle_id \in DOMAIN PlayerList'
            /\ Len(PlayerList'[puzzle_id]) >= Len(PlayerList[puzzle_id])
            /\ \A i \in 1..Len(PlayerList[puzzle_id]) :
                   PlayerList'[puzzle_id][i] = PlayerList[puzzle_id][i]]_vars

\* The first player of the list has just submitted a second attempt, after
\* another player registered.
C20_Witness ==
    /\ Succeeded(last, "submit_attempt", 1)
    /\ Len(PlayerList[1]) = 2
    /\ Len(Attempts[<<1, PlayerList[1][1]>>]) = 2
    /\ Len(Attempts[<<1, PlayerList[1][2]>>]) = 1

\* C21: submit_attempt by the player for a puzzle id that is not stored
\* returns PuzzleNotFound whatever the guess, and for a stored puzzle that
\* is not Open returns PuzzleNotOpen whatever the guess; InvalidWordLength
\* is returned only for a stored Open puzzle.
C21_Original ==
    \A player \in Players, puzzle_id \in PuzzleIds, attempt \in Words :
        LET out == submit_attempt(Storage, player, player, puzzle_id, attempt)
        IN  /\ puzzle_id \notin DOMAIN Puzzle =>
                   out = Outcome(Storage, "PuzzleNotFound", <<>>)
            /\ (/\ puzzle_id \in DOMAIN Puzzle
                /\ Puzzle[puzzle_id].status # "Open") =>
                   out = Outcome(Storage, "PuzzleNotOpen", <<>>)
            /\ out.result = "InvalidWordLength" =>
                   /\ puzzle_id \in DOMAIN Puzzle
                   /\ Puzzle[puzzle_id].status = "Open"

\* C21, amended: submit_attempt by the player with a guess of another
\* length than WORD_LENGTH returns InvalidWordLength whether the puzzle is
\* stored or not and whatever its status; with a guess of WORD_LENGTH bytes
\* it returns PuzzleNotFound for a puzzle id that is not stored and
\* PuzzleNotOpen for a stored puzzle that is not Open.  Nothing is changed
\* in any of these cases.
C21_CheckOrder ==
    \A player \in Players, puzzle_id \in PuzzleIds, attempt \in Words :
        LET out == submit_attempt(Storage, player, player, puzzle_id, attempt)
        IN  /\ Len(attempt) # WORD_LENGTH =>
                   out = Outcome(Storage, "InvalidWordLength", <<>>)
            /\ (/\ Len(attempt) = WORD_LENGTH
                /\ puzzle_id \notin DOMAIN Puzzle) =>
                   out = Outcome(Storage, "PuzzleNotFound", <<>>)
            /\ (/\ Len(attempt) = WORD_LENGTH
                /\ puzzle_id \in DOMAIN Puzzle
                /\ Puzzle[puzzle_id].status # "Open") =>
                   out = Outcome(Storage, "PuzzleNotOpen", <<>>)

\* A guess of two bytes has just been refused with InvalidWordLength for a
\* puzzle id that is not stored.
C21_Witness ==
    /\ last.op = "submit_attempt"
    /\ last.result = "InvalidWordLength"
    /\ Admin = "admin"
    /\ 1 \notin DOMAIN Puzzle

\* C22: a successful finalize_result leaves every listed player's attempt
\* list with the same length and the same guesses in the same order, each
\* attempt's scores being score_guess of its guess and the revealed answer;
\* no attempt list appears or disappears, and the list of a player who is
\* not in the PlayerList stays as it is.
C22_ScoredInPlace ==
    [][Succeeded(last', "finalize_result", 1) =>
          /\ DOMAIN Attempts' = DOMAIN Attempts
          /\ \A key \in DOMAIN Attempts :
                IF \E k \in 1..Len(PlayerList[1]) :
                       key = <<1, PlayerList[1][k]>>
                THEN /\ Len(Attempts'[key]) = Len(Attempts[key])
                     /\ \A i \in 1..Len(Attempts[key]) :
                            /\ Attempts'[key][i].guess
                                   = Attempts[key][i].guess
                            /\ Attempts'[key][i].scores
                                   = score_guess(Attempts[key][i].guess,
                                                 Puzzle[1].answer)
                ELSE Attempts'[key] = Attempts[key]]_vars

\* A finalize_result has just scored two players, one holding two different
\* guesses.
C22_Witness ==
    /\ Succeeded(last, "finalize_result", 1)
    /\ Len(PlayerList[1]) = 2
    /\ \E player \in Players :
           /\ Len(Attempts[<<1, player>>]) = 2
           /\ Attempts[<<1, player>>][1].guess
                  # Attempts[<<1, player>>][2].guess
           /\ Attempts[<<1, player>>][1].scores
                  # Attempts[<<1, player>>][2].scores

\* The storage after the player's submit_attempt calls with the guesses
\* from the k-th on, made one after the other.
RECURSIVE SubmitAll(_, _, _, _)
SubmitAll(env, player, guesses, k) ==
    IF k > Len(guesses) THEN env
    ELSE SubmitAll(submit_attempt(env, player, player, 1, guesses[k]).env,
                   player, guesses, k + 1)

\* The guesses stored for the player, in the order of submission.
GuessesOf(player) ==
    LET attempts == get_attempts(Storage, player, 1)
    IN  [i \in 1..Len(attempts) |-> attempts[i].guess]

\* The storage after the run in which the players submit the guesses they
\* hold in the current state one player after the other, first and then
\* second, followed by reveal_answer and finalize_result with the answer of
\* the current state.
SerializedRun(first, second) ==
    LET env0 == [instance |-> NoEntries, Puzzle |-> NoEntries,
                 PlayerList |-> NoEntries, Attempts |-> NoEntries,
                 Winner |-> NoEntries]
        env1 == init(env0, "admin", "admin", "pool", "balance").env
        env2 == create_daily_puzzle(env1, "admin", 1,
                                    Puzzle[1].answer_commitment).env
        env3 == SubmitAll(env2, first, GuessesOf(first), 1)
        env4 == SubmitAll(env3, second, GuessesOf(second), 1)
        env5 == reveal_answer(env4, "admin", 1, Puzzle[1].answer).env
    IN  finalize_result(env5, "admin", first, 1).env

\* C24: the records of a finalized puzzle are those of the run in which the
\* same guesses are submitted player by player, in either order of the
\* players: the scored attempt lists, the Winner flags and the puzzle
\* record with player_count and winner_count are the same, whatever the
\* interleaving of the players' submissions was.
C24_SubmissionOrderIrrelevant ==
    [](Succeeded(last, "finalize_result", 1) =>
          \A first \in Players :
              \A second \in Players \ {first} :
                  LET env == SerializedRun(first, second)
                  IN  /\ env.Attempts = Attempts
                      /\ env.Winner = Winner
                      /\ env.Puzzle = Puzzle)

\* A puzzle has just been finalized whose first player submitted a second
\* and a third guess after the second player's first.
C24_Witness ==
    /\ Succeeded(last, "finalize_result", 1)
    /\ Len(PlayerList[1]) = 2
    /\ Len(Attempts[<<1, PlayerList[1][1]>>]) = 3
    /\ Len(Attempts[<<1, PlayerList[1][2]>>]) = 2
    /\ Puzzle[1].winner_count = 1

\* The event kind of each entry point that publishes one.
EventOf(op) ==
    CASE op = "create_daily_puzzle" -> "PuzzleCreated"
      [] op = "submit_attempt" -> "AttemptSubmitted"
      [] op = "reveal_answer" -> "AnswerRevealed"
      [] op = "finalize_result" -> "PuzzleFinalized"
      [] OTHER -> "none"

\* C25: no call returns Overflow, and no submit_attempt or finalize_result
\* would in any reachable state; a registration happens only at a
\* player_count below MAX_PLAYERS_PER_PUZZLE, a submission only at an
\* attempt number below MAX_ATTEMPTS, and winner_count never exceeds
\* player_count, which never exceeds MAX_PLAYERS_PER_PUZZLE.
C25_OverflowUnreachable ==
    /\ [](/\ last.result # "Overflow"
          /\ \A player \in FullPlayers :
                 submit_attempt(Storage, player, player, 1, CRANE).result
                     # "Overflow"
          /\ \A puzzle_id \in DOMAIN Puzzle :
                 /\ Puzzle[puzzle_id].winner_count
                        <= Puzzle[puzzle_id].player_count
                 /\ Puzzle[puzzle_id].player_count
                        <= MAX_PLAYERS_PER_PUZZLE)
    /\ [][Succeeded(last', "submit_attempt", 1) =>
              LET player == last'.events[1].player IN
              /\ Len(get_attempts(Storage, player, 1)) < MAX_ATTEMPTS
              /\ Len(get_attempts(Storage, player, 1)) = 0 =>
                     Puzzle[1].player_count < MAX_PLAYERS_PER_PUZZLE]_vars

\* A finalize_result has just counted a winner among
\* MAX_PLAYERS_PER_PUZZLE players.
C25_Witness ==
    /\ Succeeded(last, "finalize_result", 1)
    /\ Puzzle[1].player_count = MAX_PLAYERS_PER_PUZZLE
    /\ Puzzle[1].winner_count = 1

\* The attempts stored for the players lo .. hi of a PlayerList (summed by
\* halves).
RECURSIVE AttemptsOfPlayers(_, _, _)
AttemptsOfPlayers(players, lo, hi) ==
    IF lo > hi THEN 0
    ELSE IF lo = hi THEN Len(get_attempts(Storage, players[lo], 1))
    ELSE AttemptsOfPlayers(players, lo, (lo + hi) \div 2)
             + AttemptsOfPlayers(players, (lo + hi) \div 2 + 1, hi)

\* C26: in every reachable state the PlayerList has at most
\* MAX_PLAYERS_PER_PUZZLE players and each of them at most MAX_ATTEMPTS
\* attempts, so that the attempts finalize_result has to score are at most
\* MAX_PLAYERS_PER_PUZZLE * MAX_ATTEMPTS; finalize_result on a revealed
\* puzzle comes to its end with Ok, having scored exactly these attempts.
C26_FinalizeBounded ==
    /\ [](\A puzzle_id \in DOMAIN PlayerList :
             LET players == PlayerList[puzzle_id] IN
             /\ Len(players) <= MAX_PLAYERS_PER_PUZZLE
             /\ \A k \in 1..Len(players) :
                    Len(get_attempts(Storage, players[k], puzzle_id))
                        <= MAX_ATTEMPTS
             /\ AttemptsOfPlayers(players, 1, Len(players))
                    <= MAX_PLAYERS_PER_PUZZLE * MAX_ATTEMPTS)
    /\ [][/\ (last'.op = "finalize_result" /\ Puzzle[1].status = "Revealed")
                 => last'.result = "Ok"
          /\ Succeeded(last', "finalize_result", 1) =>
                 \A key \in DOMAIN Attempts' :
                     \A i \in 1..Len(Attempts'[key]) :
                         Attempts'[key][i].scores # <<>>]_vars

\* A full PlayerList has just been scored, one of its players holding
\* MAX_ATTEMPTS attempts.
C26_Witness ==
    /\ Succeeded(last, "finalize_result", 1)
    /\ Len(PlayerList[1]) = MAX_PLAYERS_PER_PUZZLE
    /\ \E player \in Newcomers :
           Len(get_attempts(Storage, player, 1)) = MAX_ATTEMPTS

\* C27: the state after a call: a failed call has published no event; a
\* successful create_daily_puzzle, submit_attempt, reveal_answer or
\* finalize_result has published exactly one event, of its own kind; the
\* AttemptSubmitted event carries the number of attempts the player now
\* has for the puzzle (counted from 1), and the PuzzleFinalized event the
\* answer and the winner_count stored on the puzzle.
C27_OneEventPerSuccess ==
    /\ last.result # "Ok" => last.events = <<>>
    /\ (last.result = "Ok" /\ EventOf(last.op) # "none") =>
           /\ Len(last.events) = 1
           /\ last.events[1].event = EventOf(last.op)
           /\ last.events[1].puzzle_id \in DOMAIN Puzzle
    /\ Succeeded(last, "submit_attempt", 1) =>
           LET attempts == get_attempts(Storage, last.events[1].player, 1)
           IN  /\ last.events[1].attempt_number = Len(attempts)
               /\ last.events[1].attempt_number >= 1
               /\ last.events[1].guess = attempts[Len(attempts)].guess
    /\ Succeeded(last, "finalize_result", 1) =>
           /\ last.events[1].answer = Puzzle[1].answer
           /\ last.events[1].winner_count = Puzzle[1].winner_count

\* A player's third attempt has just been published, after another player's
\* first.
C27_Witness ==
    /\ Succeeded(last, "submit_attempt", 1)
    /\ last.events[1].attempt_number = 3
    /\ Len(PlayerList[1]) = 2
    /\ last.events[1].player = PlayerList[1][1]

\* C28: in every reachable state, for every caller and puzzle id,
\* finalize_result returns the same result, the same storage and the same
\* event whatever its player argument is.
C28_PlayerArgumentUnused ==
    [](\A auth \in AdminCallers, puzzle_id \in PuzzleIds :
          LET out == finalize_result(Storage, auth, "alice", puzzle_id)
          IN  \A player \in Players \ {"alice"} :
                  finalize_result(Storage, auth, player, puzzle_id) = out)

\* A finalize_result has just scored two players in one call, one of them
\* a winner and the other not.
C28_Witness ==
    /\ Succeeded(last, "finalize_result", 1)
    /\ Len(PlayerList[1]) = 2
    /\ \A player \in Players :
           Len(Attempts[<<1, player>>][1].scores) = WORD_LENGTH
    /\ Puzzle[1].winner_count = 1

\* The entries of a map of (puzzle id, player) keys that belong to a puzzle.
EntriesOf(map, puzzle_id) ==
    [key \in {k \in DOMAIN map : k[1] = puzzle_id} |-> map[key]]

\* All records of one puzzle id in the given storage maps.
RecordsOf(puzzles, lists, attempts, winners, puzzle_id) ==
    [puzzle |-> storage_get(puzzles, puzzle_id),
     players |-> storage_get(lists, puzzle_id),
     attempts |-> EntriesOf(attempts, puzzle_id),
     winners |-> EntriesOf(winners, puzzle_id)]

\* C29: a successful submit_attempt(player, puzzle_id, ..) changes nothing
\* but that puzzle's PlayerList and player_count and the attempt list of
\* (puzzle_id, player): the puzzle's other fields, every other attempt
\* list, every Winner flag and the administrator stay as they are; a
\* successful create_daily_puzzle, reveal_answer or finalize_result for one
\* puzzle id leaves all records of every other puzzle id as they are.
C29_IsolatedPerKey ==
    [][(last'.result = "Ok" /\ EventOf(last'.op) # "none") =>
          LET puzzle_id == last'.events[1].puzzle_id IN
          /\ \A other \in PuzzleIdsTwo \ {puzzle_id} :
                 RecordsOf(Puzzle', PlayerList', Attempts', Winner', other)
                     = RecordsOf(Puzzle, PlayerList, Attempts, Winner, other)
          /\ instance' = instance
          /\ last'.op = "submit_attempt" =>
                 LET player == last'.events[1].player IN
                 /\ Puzzle'[puzzle_id]
                        = [Puzzle[puzzle_id] EXCEPT
                              !.player_count = Puzzle'[puzzle_id].player_count]
                 /\ Winner' = Winner
                 /\ \A key \in (DOMAIN Attempts \cup DOMAIN Attempts')
                                    \ {<<puzzle_id, player>>} :
                        /\ key \in DOMAIN Attempts
                        /\ key \in DOMAIN Attempts'
                        /\ Attempts'[key] = Attempts[key]]_vars

\* A player who holds an attempt for one puzzle has just submitted the
\* first attempt for another puzzle, which another player has entered
\* already.
C29_Witness ==
    /\ Succeeded(last, "submit_attempt", 2)
    /\ Len(PlayerList[2]) = 2
    /\ last.events[1].player = PlayerList[2][2]
    /\ Len(get_attempts(Storage, PlayerList[2][2], 1)) = 1
    /\ Len(get_attempts(Storage, PlayerList[2][2], 2)) = 1

\* C30: in every reachable state every stored guess and every non-empty
\* stored answer has exactly WORD_LENGTH bytes, so that finalize_result
\* calls score_guess only on words of that length.
C30_WordLengths ==
    /\ \A key \in DOMAIN Attempts :
           \A i \in 1..Len(Attempts[key]) :
               Len(Attempts[key][i].guess) = WORD_LENGTH
    /\ \A puzzle_id \in DOMAIN Puzzle :
           Puzzle[puzzle_id].answer # <<>> =>
               Len(Puzzle[puzzle_id].answer) = WORD_LENGTH

\* A guess of two bytes has just been refused while attempts and an answer
\* are stored.
C30_Witness ==
    /\ last.op = "submit_attempt"
    /\ last.result = "InvalidWordLength"
    /\ Attempts # NoEntries
    /\ 1 \in DOMAIN Puzzle
    /\ Len(Puzzle[1].answer) = WORD_LENGTH

====
